---- MODULE Spec2Model ----
(***************************************************************************)
(* A model of squire's Scroll (file handle) binding, src/other/io/scroll.c *)
(*                                                                         *)
(* The state is the struct sq_scroll of every handle, the stdio stream     *)
(* behind each handle, the file system, the four file-scope journey        *)
(* variables, and the invocation and outcome of the last call.  One action *)
(* stands for each entry point of scroll.c.                                *)
(*                                                                         *)
(* stdio is modelled at the level the code uses it: a stream has a         *)
(* position and an error indicator, writes reach the file at once, and a   *)
(* stream that was fclose()d is released memory: any further stdio call on *)
(* it is undefined behaviour, modelled as a nondeterministic outcome.      *)
(***************************************************************************)
EXTENDS Integers, Sequences, FiniteSets, TLC

\* ----------------------------------------------------------------- bounds
MaxFile == 1

\* ------------------------------------------------------- program constants
NUL == 0
NL == 10
write_nargs == 2
read_nargs == 2
seek_nargs == 3
close_nargs == 1
SEEK_SET == 0
SEEK_CUR == 1
SEEK_END == 2

\* Two handles, opened in this order.
Handles == {1, 2}
Bytes == {NUL, NL, 97}
NULL == 0
\* A path of the file system: whether a file is there, and its bytes.
NoFile == [exists |-> FALSE, data |-> <<>>]

\* The (filename, mode) pairs scripts pass to IO.open in the model.
OpenArgs ==
    { <<"t.txt", "w+">>, <<"t.txt", "r">>, <<"missing.txt", "r">> }
Paths == { a[1] : a \in OpenArgs }

Min(a, b) == IF a < b THEN a ELSE b
Max(a, b) == IF a < b THEN b ELSE a

\* The byte strings scripts write in the model: the empty one and every
\* single byte, the zero byte included.  Longer files come from more writes.
ByteStrings == { <<>> } \cup { <<b>> : b \in Bytes }

\* ------------------------------------------------------------ text values
\* struct sq_text: ptr holds the bytes stored so far, length is the length
\* field.  sq_text_allocate(length) fixes the length field at allocation.
sq_text_allocate(length) == [ptr |-> <<>>, length |-> length]

\* The C string that starts at s: the bytes before the first NUL.
RECURSIVE CString(_)
CString(s) ==
    IF s = <<>> \/ Head(s) = NUL THEN <<>>
    ELSE <<Head(s)>> \o CString(Tail(s))

strlen(s) == Len(CString(s))

\* strndup(s, n): a copy of at most n bytes of s, ending at the first NUL.
strndup(s, n) == CString(SubSeq(s, 1, Min(n, Len(s))))

\* sq_text_new(ptr): a text owning the C string ptr; its length is strlen.
sq_text_new(ptr) == [ptr |-> CString(ptr), length |-> strlen(ptr)]

\* The texts a script can pass: length is the real byte count.
Texts == { [ptr |-> s, length |-> Len(s)] : s \in ByteStrings }
NoText == [ptr |-> <<>>, length |-> 0]

\* ------------------------------------------------------------------ stdio
\* A stream (FILE): open is FALSE once fclose() released it.
NoStream == [open |-> FALSE, path |-> "", mode |-> "", pos |-> 0, err |-> FALSE]

\* fopen(filename, mode): mode "r" needs the file to exist, mode "w+" creates
\* or truncates it; fault is any other OS failure.
fopen(fsys, filename, mode, fault) ==
    IF fault \/ (mode = "r" /\ ~fsys[filename].exists)
    THEN [ok |-> FALSE, fsys |-> fsys, st |-> NoStream]
    ELSE [ok |-> TRUE,
          fsys |-> IF mode = "w+"
                   THEN [fsys EXCEPT ![filename] = [exists |-> TRUE, data |-> <<>>]]
                   ELSE fsys,
          st |-> [open |-> TRUE, path |-> filename, mode |-> mode,
                  pos |-> 0, err |-> FALSE]]

\* The bytes of content from position pos on.
Remaining(content, pos) ==
    IF pos >= Len(content) THEN <<>> ELSE SubSeq(content, pos + 1, Len(content))

\* content with data stored at offset pos; a gap past the end reads as NUL.
PutAt(content, pos, data) ==
    IF data = <<>> THEN content
    ELSE LET newlen == Max(Len(content), pos + Len(data)) IN
         [i \in 1..newlen |->
            IF i > pos /\ i <= pos + Len(data) THEN data[i - pos]
            ELSE IF i <= Len(content) THEN content[i] ELSE NUL]

\* fread(buf, 1, n, st): transfers min(n, bytes remaining); a short count
\* means end of file or, with fault, a read error (error indicator set).
fread(st, content, n, fault) ==
    IF n = 0 THEN [n |-> 0, bytes |-> <<>>, st |-> st]
    ELSE IF fault THEN [n |-> 0, bytes |-> <<>>, st |-> [st EXCEPT !.err = TRUE]]
    ELSE LET rem == Remaining(content, st.pos)
             k == Min(n, Len(rem))
         IN [n |-> k, bytes |-> SubSeq(rem, 1, k),
             st |-> [st EXCEPT !.pos = st.pos + k]]

\* fwrite(ptr, 1, length, st): a stream opened "r" cannot be written; with
\* fault the OS transfers one byte less than asked.  Either failure sets the
\* stream's error indicator.
fwrite(st, content, ptr, length, fault) ==
    LET data == SubSeq(ptr, 1, length) IN
    IF length = 0 THEN [n |-> 0, st |-> st, content |-> content]
    ELSE IF st.mode = "r"
    THEN [n |-> 0, st |-> [st EXCEPT !.err = TRUE], content |-> content]
    ELSE IF fault
    THEN [n |-> length - 1,
          st |-> [st EXCEPT !.pos = st.pos + length - 1, !.err = TRUE],
          content |-> PutAt(content, st.pos, SubSeq(data, 1, length - 1))]
    ELSE [n |-> length,
          st |-> [st EXCEPT !.pos = st.pos + length],
          content |-> PutAt(content, st.pos, data)]

\* The line that starts s: through the first newline, or all of s.
RECURSIVE Line(_)
Line(s) ==
    IF s = <<>> THEN <<>>
    ELSE IF Head(s) = NL THEN <<NL>>
    ELSE <<Head(s)>> \o Line(Tail(s))

\* fgetln(st, &length): the next line and its length, NULL at end of file
\* or on a read error.
fgetln(st, content, fault) ==
    LET rem == Remaining(content, st.pos) IN
    IF fault
    THEN [null |-> TRUE, result |-> <<>>, length |-> 0,
          st |-> [st EXCEPT !.err = TRUE]]
    ELSE IF rem = <<>>
    THEN [null |-> TRUE, result |-> <<>>, length |-> 0, st |-> st]
    ELSE [null |-> FALSE, result |-> Line(rem), length |-> Len(Line(rem)),
          st |-> [st EXCEPT !.pos = st.pos + Len(Line(rem))]]

\* fseek(st, offset, whence): nonzero for a whence outside SEEK_SET,
\* SEEK_CUR, SEEK_END, for a negative resulting offset, or on an OS fault.
\* The error indicator is left as it is.
fseek(st, content, offset, whence, fault) ==
    LET base == IF whence = SEEK_SET THEN 0
                ELSE IF whence = SEEK_CUR THEN st.pos
                ELSE Len(content)
    IN IF fault \/ whence \notin {SEEK_SET, SEEK_CUR, SEEK_END} \/ base + offset < 0
       THEN [rc |-> -1, st |-> st]
       ELSE [rc |-> 0, st |-> [st EXCEPT !.pos = base + offset]]

\* ftell(st): the position, -1 on an OS fault.
ftell(st, fault) == IF fault THEN -1 ELSE st.pos

ferror(st) == st.err

\* ------------------------------------------------------- outcome of a call
\* kind: "ok" (returned), "IOError" (sq_throw_io), "Error" (sq_throw),
\* "die" (die()), "abort" (a failed assert).  type/text/num/str are the
\* returned value, st and content the stream and file afterwards, os whether
\* the call reached a stdio call on scroll->file.
Out(kind, type, text, num, st, content, os) ==
    [kind |-> kind, type |-> type, text |-> text, num |-> num, str |-> "",
     st |-> st, content |-> content, os |-> os]

Throw(kind, st, content, os) == Out(kind, "none", NoText, 0, st, content, os)

\* ------------------------------------------------------- wide byte counts
\* A size_t count written hi * 2^32 + lo with lo small (negative lo: just
\* below a multiple of 2^32).  On these the arithmetic of 64-bit size_t is
\* exact componentwise, and the order is that of the pairs.
Size(hi, lo) == [hi |-> hi, lo |-> lo]
Zero == Size(0, 0)
Plus(a, b) == Size(a.hi + b.hi, a.lo + b.lo)
Minus(a, b) == Size(a.hi - b.hi, a.lo - b.lo)
LessEq(a, b) == a.hi < b.hi \/ (a.hi = b.hi /\ a.lo <= b.lo)

\* The conversion of a size_t to unsigned (32 bits): the count modulo 2^32.
to_unsigned(a) == Size(IF a.lo < 0 THEN 1 ELSE 0, a.lo)

\* The counts of the model: up to two multiples of 2^32, one byte either way.
Sizes == { Size(hi, lo) : hi \in {0, 1, 2}, lo \in {-1, 0, 1} } \ { Size(0, -1) }

\* The counts a run of the loop is followed through.
Near(a) == a.lo \in {-2, -1, 0, 1, 2}

\* What one fread(buf, 1, request, file) can transfer when the stream has
\* avail bytes left: nothing when nothing is asked, nothing on a read error;
\* otherwise some count up to the smaller of the two, nothing only at end of
\* file.
OSReads(request, avail, fault) ==
    IF request = Zero \/ fault \/ avail = Zero THEN { Zero }
    ELSE { k \in Sizes \ { Zero } : LessEq(k, request) /\ LessEq(k, avail) }

\* One evaluation of the while condition of sq_scroll_read and, when it is
\* nonzero, of the body: fread returned k, nread = (unsigned) k, the loop is
\* left when nread is 0, else position += nread.
loop_step(position, k) ==
    LET nread == to_unsigned(k) IN
    [nread |-> nread, exit |-> nread = Zero,
     position |-> IF nread = Zero THEN position ELSE Plus(position, nread)]

\* ------------------------------------------------- the native operations
\* The accumulation loop of sq_scroll_read.  nread is an unsigned: fread's
\* count is converted modulo 2^32, the identity on the counts of the model.
RECURSIVE read_loop(_, _, _, _, _, _)
read_loop(st, content, length, position, ptr, fault) ==
    LET r == fread(st, content, length - position, fault)
        nread == r.n
    IN IF nread = 0
       THEN [position |-> position, ptr |-> ptr, st |-> r.st]
       ELSE read_loop(r.st, content, length, position + nread,
                      ptr \o r.bytes, fault)

\* sq_scroll_read(scroll, length): the text keeps the length it was allocated
\* with; ptr holds the position bytes read (then the terminator).
sq_scroll_read(st, content, length, fault) ==
    LET text == sq_text_allocate(length)
        l == read_loop(st, content, length, 0, text.ptr, fault)
    IN IF ferror(l.st)
       THEN Throw("IOError", l.st, content, TRUE)
       ELSE Out("ok", "text", [text EXCEPT !.ptr = l.ptr], 0, l.st, content, TRUE)

\* sq_scroll_read_all(scroll): the todo stub.
sq_scroll_read_all(st, content) == Throw("die", st, content, FALSE)

\* A variant of sq_scroll_write that takes the length from the C string.
sq_scroll_write_strlen(st, content, ptr, length, fault) ==
    LET w == fwrite(st, content, ptr, strlen(ptr), fault) IN
    IF w.n < strlen(ptr)
    THEN Throw("IOError", w.st, w.content, TRUE)
    ELSE Out("ok", "none", NoText, 0, w.st, w.content, TRUE)

\* A variant of sq_scroll_write that does not compare fwrite's count with
\* the length.
sq_scroll_write_uncounted(st, content, ptr, length, fault) ==
    LET w == fwrite(st, content, ptr, length, fault) IN
    Out("ok", "none", NoText, 0, w.st, w.content, TRUE)

\* sq_scroll_write(scroll, ptr, length)
sq_scroll_write(st, content, ptr, length, fault) ==
    LET w == fwrite(st, content, ptr, length, fault) IN
    IF w.n < length
    THEN Throw("IOError", w.st, w.content, TRUE)
    ELSE Out("ok", "none", NoText, 0, w.st, w.content, TRUE)

\* sq_scroll_tell(scroll)
sq_scroll_tell(st, content, fault) ==
    LET value == ftell(st, fault) IN
    IF value < 0
    THEN Throw("IOError", st, content, TRUE)
    ELSE Out("ok", "numeral", NoText, value, st, content, TRUE)

\* sq_scroll_seek(scroll, offset, whence)
sq_scroll_seek(st, content, offset, whence, fault) ==
    LET s == fseek(st, content, offset, whence, fault) IN
    IF s.rc # 0
    THEN Throw("IOError", s.st, content, TRUE)
    ELSE Out("ok", "none", NoText, 0, s.st, content, TRUE)

\* sq_scroll_close(scroll): fclose releases the stream whether or not it
\* reports a failure.  Writes reach the file at once in this model, so the
\* calls of the model close a valid stream without a fault.
sq_scroll_close(st, content, fault) ==
    IF fault
    THEN Throw("IOError", NoStream, content, TRUE)
    ELSE Out("ok", "none", NoText, 0, NoStream, content, TRUE)

\* ------------------------------------------------------ the four journeys
\* assert(args.pargc == nargs); assert(args.kwargc == 0);
assert_args(args, nargs) == args.pargc = nargs /\ args.kwargc = 0

strcmp(a, b) == IF CString(a) = CString(b) THEN 0 ELSE 1

SQ_NI == [genus |-> "other", n |-> 0, text |-> NoText, ni |-> TRUE]

\* write_func(args)
write_func(st, content, args, fault) ==
    IF ~assert_args(args, write_nargs) THEN Throw("abort", st, content, FALSE)
    ELSE LET text == args.text
             w == sq_scroll_write(st, content, text.ptr, text.length, fault)
         IN IF w.kind = "ok"
            THEN Out("ok", "ni", NoText, 0, w.st, w.content, TRUE)
            ELSE w

\* sq_throw(fmt, ...): raises an error that is not an IOError; str is the
\* formatted message.  No stdio call precedes it where the code uses it so.
sq_throw(str, st, content) == [Throw("Error", st, content, FALSE) EXCEPT !.str = str]

\* sq_value_typename(arg): the name of the runtime type of a value.
sq_value_typename(arg) ==
    CASE arg.genus = "numeral" -> "numeral"
      [] arg.genus = "text" -> "text"
      [] arg.genus = "boolean" -> "veracity"
      [] arg.genus = "other" /\ arg.ni -> "ni"
      [] OTHER -> "scroll"

\* A variant of read_func without the test of the numeral's sign: a negative
\* amount reads that many bytes.
read_func_unsigned(st, content, args, fault) ==
    IF ~assert_args(args, read_nargs) THEN Throw("abort", st, content, FALSE)
    ELSE LET arg == args.arg IN
      CASE arg.genus = "numeral" ->
             sq_scroll_read(st, content, IF arg.n < 0 THEN -arg.n ELSE arg.n, fault)
        [] arg.genus = "text" ->
             IF strcmp(arg.text.ptr, <<NL>>) # 0
             THEN Throw("die", st, content, FALSE)
             ELSE LET g == fgetln(st, content, fault) IN
                  IF g.null
                  THEN Throw("Error", g.st, content, TRUE)
                  ELSE Out("ok", "text", sq_text_new(strndup(g.result, g.length)),
                           0, g.st, content, TRUE)
        [] arg.genus = "other" /\ arg = SQ_NI -> sq_scroll_read_all(st, content)
        [] OTHER -> sq_throw("invalid read arugment kind '"
                             \o sq_value_typename(arg) \o "'", st, content)

\* A variant of read_func whose default branch reads a line.
read_func_default_line(st, content, args, fault) ==
    IF ~assert_args(args, read_nargs) THEN Throw("abort", st, content, FALSE)
    ELSE LET arg == args.arg IN
      CASE arg.genus = "numeral" ->
             IF arg.n < 0
             THEN sq_throw("can only read nonnegative amounts", st, content)
             ELSE sq_scroll_read(st, content, arg.n, fault)
        [] arg.genus = "other" /\ arg = SQ_NI -> sq_scroll_read_all(st, content)
        [] OTHER ->
             IF arg.genus = "text" /\ strcmp(arg.text.ptr, <<NL>>) # 0
             THEN Throw("die", st, content, FALSE)
             ELSE LET g == fgetln(st, content, fault) IN
                  IF g.null
                  THEN Throw("Error", g.st, content, TRUE)
                  ELSE Out("ok", "text", sq_text_new(strndup(g.result, g.length)),
                           0, g.st, content, TRUE)

\* read_func(args): the switch on the genus of the argument.
read_func(st, content, args, fault) ==
    IF ~assert_args(args, read_nargs) THEN Throw("abort", st, content, FALSE)
    ELSE LET arg == args.arg IN
      CASE arg.genus = "numeral" ->
             IF arg.n < 0
             THEN sq_throw("can only read nonnegative amounts", st, content)
             ELSE sq_scroll_read(st, content, arg.n, fault)
        [] arg.genus = "text" ->
             IF strcmp(arg.text.ptr, <<NL>>) # 0
             THEN Throw("die", st, content, FALSE)
             ELSE LET g == fgetln(st, content, fault) IN
                  IF g.null
                  THEN Throw("Error", g.st, content, TRUE)
                  ELSE Out("ok", "text", sq_text_new(strndup(g.result, g.length)),
                           0, g.st, content, TRUE)
        [] arg.genus = "other" /\ arg = SQ_NI -> sq_scroll_read_all(st, content)
        [] OTHER -> sq_throw("invalid read arugment kind '"
                             \o sq_value_typename(arg) \o "'", st, content)

\* A variant of seek_func that returns the offset it was given.
seek_func_offset(st, content, args, fault) ==
    IF ~assert_args(args, seek_nargs) THEN Throw("abort", st, content, FALSE)
    ELSE LET s == sq_scroll_seek(st, content, args.offset, args.whence,
                                 fault = "seek")
         IN IF s.kind # "ok" THEN s
            ELSE Out("ok", "numeral", NoText, args.offset, s.st, content, TRUE)

\* seek_func(args): seek, then tell.
seek_func(st, content, args, fault) ==
    IF ~assert_args(args, seek_nargs) THEN Throw("abort", st, content, FALSE)
    ELSE LET s == sq_scroll_seek(st, content, args.offset, args.whence,
                                 fault = "seek")
         IN IF s.kind # "ok" THEN s
            ELSE sq_scroll_tell(s.st, content, fault = "tell")

\* close_func(args)
close_func(st, content, args, fault) ==
    IF ~assert_args(args, close_nargs) THEN Throw("abort", st, content, FALSE)
    ELSE LET c == sq_scroll_close(st, content, fault) IN
         IF c.kind = "ok"
         THEN Out("ok", "ni", NoText, 0, c.st, c.content, TRUE)
         ELSE c

\* ------------------------------------------------ construction, attributes
\* strdup(s): the characters of s in a newly allocated buffer.
strdup(s) == [str |-> s, buf |-> "fresh"]

\* struct sq_scroll before sq_scroll_init has run on it.
NoScroll == [status |-> "unborn", file |-> NULL, filename |-> "", mode |-> ""]

\* A variant of sq_scroll_init that duplicates the names and creates the
\* journeys before it tests what fopen returned.
sq_scroll_init_unchecked(scroll, jn, fsys, h, filename, mode, fault) ==
    LET f == fopen(fsys, filename, mode, fault) IN
    [kind |-> IF f.ok THEN "ok" ELSE "IOError",
     scroll |-> [status |-> IF f.ok THEN "live" ELSE "unborn",
                 file |-> IF f.ok THEN h ELSE NULL,
                 filename |-> filename, mode |-> mode],
     jn |-> [write |-> h, read |-> h, seek |-> h, close |-> h],
     fsys |-> f.fsys, st |-> f.st]

\* sq_scroll_init(scroll, filename, mode) on handle h: the result of fopen is
\* stored in scroll->file before it is tested; on success the names are
\* duplicated and NEW_JOURNEY assigns four fresh journeys (named after h) to
\* the file-scope variables.
sq_scroll_init(scroll, jn, fsys, h, filename, mode, fault) ==
    LET f == fopen(fsys, filename, mode, fault) IN
    IF ~f.ok
    THEN [kind |-> "IOError", scroll |-> [scroll EXCEPT !.file = NULL],
          jn |-> jn, fsys |-> f.fsys, st |-> f.st]
    ELSE [kind |-> "ok",
          scroll |-> [status |-> "live", file |-> h,
                      filename |-> strdup(filename).str,
                      mode |-> strdup(mode).str],
          jn |-> [write |-> h, read |-> h, seek |-> h, close |-> h],
          fsys |-> f.fsys, st |-> f.st]

\* A value sq_scroll_get_attr returns: a text (str its characters, buf the
\* buffer it owns), a journey (num names it) or undefined.
Value(type, str, num, buf) == [type |-> type, str |-> str, num |-> num, buf |-> buf]

\* A variant of sq_scroll_get_attr that hands the handle's own buffers to
\* the texts it returns.
sq_scroll_get_attr_shared(scroll, jn, attr) ==
    CASE attr = "filename" -> Value("text", scroll.filename, 0, "filename")
      [] attr = "mode" -> Value("text", scroll.mode, 0, "mode")
      [] attr = "write" -> Value("journey", "", jn.write, "none")
      [] attr = "read" -> Value("journey", "", jn.read, "none")
      [] attr = "seek" -> Value("journey", "", jn.seek, "none")
      [] OTHER -> Value("undefined", "", 0, "none")

\* sq_scroll_get_attr(scroll, attr): the handle's buffers are "filename" and
\* "mode"; the texts returned own what strdup allocated.
sq_scroll_get_attr(scroll, jn, attr) ==
    CASE attr = "filename" ->
           LET p == strdup(scroll.filename) IN Value("text", p.str, 0, p.buf)
      [] attr = "mode" ->
           LET p == strdup(scroll.mode) IN Value("text", p.str, 0, p.buf)
      [] attr = "write" -> Value("journey", "", jn.write, "none")
      [] attr = "read" -> Value("journey", "", jn.read, "none")
      [] attr = "seek" -> Value("journey", "", jn.seek, "none")
      [] OTHER -> Value("undefined", "", 0, "none")

\* ------------------------------------------------------------------ state
VARIABLES
    fs,         \* the file system: path -> [exists, data]
    scrolls,    \* handle -> struct sq_scroll
    streams,    \* handle -> the FILE that sq_scroll_init opened for it
    journeys,   \* write_journey, read_journey, seek_journey, close_journey
    call,       \* the last call: operation, receiver, arguments
    ret,        \* its outcome
    alive,      \* FALSE once die(), a failed assert or a crash ended the process
    rtrip,      \* progress of a write(T), seek(0,0), read(T.length) sequence
    loop        \* one run of sq_scroll_read's loop, iteration by iteration

vars == <<fs, scrolls, streams, journeys, call, ret, alive, rtrip, loop>>

\* Arguments of the model's calls.
Numerals == -1..MaxFile
Offsets == {-1, 0, 1}
Whences == {SEEK_SET, SEEK_CUR, SEEK_END}
Arg(genus, n, text, ni) == [genus |-> genus, n |-> n, text |-> text, ni |-> ni]
ReadArgs ==
    { Arg("numeral", n, NoText, FALSE) : n \in Numerals }
    \cup { Arg("text", 0, [ptr |-> <<NL>>, length |-> 1], FALSE),
           Arg("text", 0, [ptr |-> <<97>>, length |-> 1], FALSE),
           SQ_NI,
           Arg("other", 0, NoText, FALSE),
           Arg("boolean", 0, NoText, FALSE) }
Attrs == {"filename", "path", "mode", "write", "read", "seek", "close", "size"}
SeekFaults == {"none", "seek", "tell"}

\* Argument lists: nargs positional arguments and no keyword argument, or a
\* malformed list with one argument too many of either sort.
Good(nargs) == [pargc |-> nargs, kwargc |-> 0]
Malformed(nargs) ==
    { [pargc |-> nargs + 1, kwargc |-> 0], [pargc |-> nargs, kwargc |-> 1] }

\* What a stdio call on a released FILE can do: report an error, appear to
\* work, or crash the process.
UBKinds == {"IOError", "ok", "crash"}

Content(h) == IF streams[h].open THEN fs[streams[h].path].data ELSE <<>>

NoTrip == [stage |-> 0, h |-> 0, text |-> NoText, clean |-> FALSE]

NoJourneys == [write |-> 0, read |-> 0, seek |-> 0, close |-> 0]

\* A call: the operation, the receiver and the arguments.
Call(op, h, args) ==
    [op |-> op, h |-> h, pargc |-> args.pargc, kwargc |-> args.kwargc,
     arg |-> SQ_NI, text |-> NoText, offset |-> 0, whence |-> 0, attr |-> "",
     mode |-> "", fault |-> FALSE]

Ret(kind, type, text, num, str, stale) ==
    [kind |-> kind, type |-> type, text |-> text, num |-> num, str |-> str,
     buf |-> "none", stale |-> stale]

\* No run of the loop is being followed.
NoLoop ==
    [pc |-> "idle", length |-> Zero, position |-> Zero, avail |-> Zero,
     taken |-> Zero, request |-> Zero, k |-> Zero, nread |-> Zero, err |-> FALSE]

Init ==
    /\ loop = NoLoop
    /\ fs = [p \in Paths |-> NoFile]
    /\ scrolls = [h \in Handles |-> NoScroll]
    /\ streams = [h \in Handles |-> NoStream]
    /\ journeys = NoJourneys
    /\ call = Call("none", 0, Good(0))
    /\ ret = Ret("none", "none", NoText, 0, "", FALSE)
    /\ alive = TRUE
    /\ rtrip = NoTrip

\* The outcomes of a call whose code yields o: o itself, or, when it reached a
\* stdio call on a FILE that fclose() already released, undefined behaviour.
Outcomes(h, o) ==
    IF o.os /\ ~streams[h].open
    THEN { Throw(k, streams[h], o.content, TRUE) : k \in UBKinds }
    ELSE { o }

\* The round-trip monitor after call c on handle h ended with kind k: stage 1
\* after write(T) at offset 0 of an empty file opened "w+", stage 2 after the
\* seek(0, 0) that follows it, stage 3 after the read(T.length) that follows
\* that; clean says the error indicator was clear when the sequence began.
NextTrip(h, c, k) ==
    IF /\ c.op = "write" /\ k = "ok" /\ streams[h].open
       /\ streams[h].mode = "w+" /\ Content(h) = <<>> /\ streams[h].pos = 0
    THEN [stage |-> 1, h |-> h, text |-> c.text, clean |-> ~streams[h].err]
    ELSE IF /\ rtrip.stage = 1 /\ c.op = "seek" /\ h = rtrip.h /\ k = "ok"
            /\ c.offset = 0 /\ c.whence = SEEK_SET
    THEN [rtrip EXCEPT !.stage = 2]
    ELSE IF /\ rtrip.stage = 2 /\ c.op = "read" /\ h = rtrip.h
            /\ c.arg.genus = "numeral" /\ c.arg.n = rtrip.text.length
    THEN [rtrip EXCEPT !.stage = 3]
    ELSE NoTrip

\* The state after call c on handle h ended with outcome o.
Effect(h, c, o) ==
    /\ call' = c
    /\ ret' = Ret(o.kind, o.type, o.text, o.num, o.str, o.os /\ ~streams[h].open)
    /\ streams' = [streams EXCEPT ![h] = o.st]
    /\ fs' = IF streams[h].open
             THEN [fs EXCEPT ![streams[h].path].data = o.content]
             ELSE fs
    /\ alive' = (o.kind \notin {"die", "abort", "crash"})
    /\ rtrip' = NextTrip(h, c, o.kind)
    /\ UNCHANGED loop

Live(h) == alive /\ scrolls[h].status = "live"

\* Handle h was opened and its FILE has since been released by fclose().
Closed(h) == scrolls[h].status = "live" /\ ~streams[h].open

\* The call has the argument list its journey asserts.
WellFormed(c) ==
    /\ c.kwargc = 0
    /\ c.pargc = (CASE c.op = "write" -> write_nargs
                    [] c.op = "read" -> read_nargs
                    [] c.op = "seek" -> seek_nargs
                    [] c.op = "close" -> close_nargs
                    [] OTHER -> c.pargc)

\* ---------------------------------------------------------------- actions
\* IO.open(filename, mode): sq_scroll_init on the next unused handle.
Open(h) ==
    /\ alive
    /\ scrolls[h].status = "unborn"
    /\ \A g \in Handles : g < h => scrolls[g].status # "unborn"
    /\ \E a \in OpenArgs, fault \in BOOLEAN :
         LET i == sq_scroll_init(scrolls[h], journeys, fs, h, a[1], a[2], fault) IN
         /\ scrolls' = [scrolls EXCEPT ![h] = i.scroll]
         /\ journeys' = i.jn
         /\ fs' = i.fsys
         /\ streams' = [streams EXCEPT ![h] = i.st]
         /\ call' = [Call("open", h, Good(2)) EXCEPT !.attr = a[1], !.mode = a[2]]
         /\ ret' = Ret(i.kind, "none", NoText, 0, "", FALSE)
    /\ rtrip' = NoTrip
    /\ UNCHANGED <<alive, loop>>

\* The calls of the model: every well-formed call, and for each malformed
\* argument list one call with it.
WriteCalls ==
    { [args |-> [pargc |-> write_nargs, kwargc |-> 0, text |-> t], fault |-> f] :
        t \in Texts, f \in {FALSE} }
    \cup { [args |-> [pargc |-> write_nargs, kwargc |-> 0, text |-> t],
            fault |-> TRUE] : t \in { u \in Texts : u.length > 0 } }
    \cup { [args |-> [pargc |-> m.pargc, kwargc |-> m.kwargc, text |-> NoText],
            fault |-> FALSE] : m \in Malformed(write_nargs) }
ReadCalls ==
    { [args |-> [pargc |-> read_nargs, kwargc |-> 0, arg |-> a], fault |-> FALSE] :
        a \in ReadArgs }
    \cup { [args |-> [pargc |-> read_nargs, kwargc |-> 0, arg |-> a],
            fault |-> TRUE] :
            a \in { Arg("numeral", MaxFile, NoText, FALSE),
                    Arg("text", 0, [ptr |-> <<NL>>, length |-> 1], FALSE) } }
    \cup { [args |-> [pargc |-> m.pargc, kwargc |-> m.kwargc, arg |-> SQ_NI],
            fault |-> FALSE] : m \in Malformed(read_nargs) }
SeekCalls ==
    { [args |-> [pargc |-> seek_nargs, kwargc |-> 0, offset |-> o, whence |-> w],
       fault |-> "none"] : o \in Offsets, w \in Whences }
    \cup { [args |-> [pargc |-> seek_nargs, kwargc |-> 0, offset |-> 0,
                      whence |-> 3],
            fault |-> "none"] }
    \cup { [args |-> [pargc |-> seek_nargs, kwargc |-> 0, offset |-> 0,
                      whence |-> SEEK_END],
            fault |-> f] : f \in SeekFaults }
    \cup { [args |-> [pargc |-> m.pargc, kwargc |-> m.kwargc, offset |-> 0,
                      whence |-> 0],
            fault |-> "none"] : m \in Malformed(seek_nargs) }
CloseCalls ==
    { [args |-> [pargc |-> close_nargs, kwargc |-> 0], fault |-> FALSE] }
    \cup { [args |-> m, fault |-> FALSE] : m \in Malformed(close_nargs) }

\* scroll.write(text)
Write(h) ==
    /\ Live(h)
    /\ \E c \in WriteCalls :
         /\ streams[h].open => streams[h].pos + c.args.text.length <= MaxFile
         /\ \E o \in Outcomes(h, write_func(streams[h], Content(h), c.args, c.fault)) :
              Effect(h, [Call("write", h, c.args) EXCEPT !.text = c.args.text,
                                                         !.fault = c.fault], o)
    /\ UNCHANGED <<scrolls, journeys>>

\* scroll.read(arg)
Read(h) ==
    /\ Live(h)
    /\ \E c \in ReadCalls :
         \E o \in Outcomes(h, read_func(streams[h], Content(h), c.args, c.fault)) :
              Effect(h, [Call("read", h, c.args) EXCEPT !.arg = c.args.arg,
                                                        !.fault = c.fault], o)
    /\ UNCHANGED <<scrolls, journeys>>

\* scroll.seek(offset, whence)
Seek(h) ==
    /\ Live(h)
    /\ \E c \in SeekCalls :
         \E o \in Outcomes(h, seek_func(streams[h], Content(h), c.args, c.fault)) :
              /\ o.st.pos <= MaxFile
              /\ Effect(h, [Call("seek", h, c.args) EXCEPT
                               !.offset = c.args.offset, !.whence = c.args.whence,
                               !.fault = (c.fault # "none")], o)
    /\ UNCHANGED <<scrolls, journeys>>

\* scroll.close()
Close(h) ==
    /\ Live(h)
    /\ \E c \in CloseCalls :
         \E o \in Outcomes(h, close_func(streams[h], Content(h), c.args, c.fault)) :
              Effect(h, Call("close", h, c.args), o)
    /\ UNCHANGED <<scrolls, journeys>>

\* sq_scroll_get_attr(scroll, attr)
GetAttr(h) ==
    /\ Live(h)
    /\ \E attr \in Attrs :
         LET v == sq_scroll_get_attr(scrolls[h], journeys, attr) IN
         /\ call' = [Call("get_attr", h, Good(2)) EXCEPT !.attr = attr]
         /\ ret' = [Ret("ok", v.type, NoText, v.num, v.str, FALSE)
                      EXCEPT !.buf = v.buf]
    /\ rtrip' = NoTrip
    /\ UNCHANGED <<fs, scrolls, streams, journeys, alive, loop>>

\* sq_scroll_deallocate(scroll): frees filename and mode and calls
\* fclose(scroll->file) whatever the state of the stream.
sq_scroll_deallocate(st, content) ==
    Out("ok", "none", NoText, 0, NoStream, content, TRUE)

Deallocate(h) ==
    /\ Live(h)
    /\ \E o \in Outcomes(h, sq_scroll_deallocate(streams[h], Content(h))) :
         Effect(h, Call("deallocate", h, Good(1)), o)
    /\ scrolls' = [scrolls EXCEPT ![h].status = "dead", ![h].filename = "",
                                  ![h].mode = ""]
    /\ UNCHANGED journeys

Next ==
    \E h \in Handles :
        \/ Open(h)
        \/ Write(h)
        \/ Read(h)
        \/ Seek(h)
        \/ Close(h)
        \/ GetAttr(h)
        \/ Deallocate(h)

Spec == Init /\ [][Next]_vars

\* ------------------------------------------------------------- properties
Newline == Arg("text", 0, [ptr |-> <<NL>>, length |-> 1], FALSE)

\* The read arguments for which read_func goes on to read the stream.
ReadsStream(arg) == (arg.genus = "numeral" /\ arg.n >= 0) \/ arg = Newline

\* The absolute offset seek(offset, whence) asks for.
SeekTarget(st, content, offset, whence) ==
    CASE whence = SEEK_SET -> offset
      [] whence = SEEK_CUR -> st.pos + offset
      [] whence = SEEK_END -> Len(content) + offset

\* C1: once close() has succeeded on a handle, each later read, write or seek
\* on it raises an IOError and makes no stdio call on the released FILE.
C1_ClosedHandleRaises ==
    ( /\ call.op \in {"read", "write", "seek"}
      /\ WellFormed(call)
      /\ call.op = "read" => ReadsStream(call.arg)
      /\ Closed(call.h) )
    => (ret.kind = "IOError" /\ ~ret.stale)

\* C2: a close() on a handle that was already closed raises an IOError and
\* does not call fclose on the released FILE.
C2_SecondCloseRaises ==
    [][ ( /\ call'.op = "close"
          /\ WellFormed(call')
          /\ Closed(call'.h) )
        => (ret'.kind = "IOError" /\ ~ret'.stale) ]_vars

\* C3: deallocate calls fclose only when the handle is still open, so fclose
\* runs once per opened handle: deallocating a closed handle makes no stdio
\* call on the released FILE.
C3_DeallocateClosesOnlyOpen ==
    [][ (call'.op = "deallocate" /\ Closed(call'.h)) => ~ret'.stale ]_vars

\* C4: when fopen fails, open raises an IOError and constructs nothing: no
\* filename or mode is stored, no journey is created, and every attribute of
\* the handles opened earlier reads as before.
C4_FailedOpenConstructsNothing ==
    [][ (call'.op = "open" /\ ret'.kind = "IOError")
        => ( /\ scrolls'[call'.h].status = "unborn"
             /\ scrolls'[call'.h].filename = ""
             /\ scrolls'[call'.h].mode = ""
             /\ journeys' = journeys
             /\ fs' = fs
             /\ streams' = streams
             /\ \A g \in Handles \ {call'.h} : \A a \in Attrs :
                  sq_scroll_get_attr(scrolls'[g], journeys', a)
                    = sq_scroll_get_attr(scrolls[g], journeys, a) ) ]_vars

C4_Witness ==
    /\ call.op = "open" /\ ret.kind = "IOError" /\ call.h = 2
    /\ scrolls[1].status = "live" /\ journeys.write = 1
    /\ scrolls[2] = NoScroll

\* C5: write(T), seek(0, 0), read(T.length) on a handle opened "w+" on an
\* empty file returns T byte for byte with T's length, zero bytes included:
\* always when the read returns, and it does return unless the OS fails the
\* read or the stream's error indicator was already set.
C5_RoundTrip ==
    rtrip.stage = 3 =>
      /\ ret.kind = "ok" =>
           (ret.text.ptr = rtrip.text.ptr /\ ret.text.length = rtrip.text.length)
      /\ (rtrip.clean /\ ~call.fault) => ret.kind = "ok"

C5_Witness ==
    /\ rtrip.stage = 3 /\ ret.kind = "ok"
    /\ rtrip.text.ptr = <<NUL>> /\ ret.text.ptr = <<NUL>> /\ ret.text.length = 1

\* C6: read(N), N >= 0, with k < N bytes remaining returns without raising a
\* text of length exactly k holding those k bytes.
C6_ShortReadLength ==
    [][ ( /\ call'.op = "read" /\ WellFormed(call')
          /\ call'.arg.genus = "numeral" /\ call'.arg.n >= 0
          /\ ~call'.fault
          /\ streams[call'.h].open /\ ~streams[call'.h].err
          /\ Len(Remaining(Content(call'.h), streams[call'.h].pos)) < call'.arg.n )
        => ( /\ ret'.kind = "ok"
             /\ ret'.text.ptr = Remaining(Content(call'.h), streams[call'.h].pos)
             /\ ret'.text.length = Len(ret'.text.ptr) ) ]_vars

\* C7: whenever the OS seek and the tell after it succeed, seek(offset, whence)
\* with whence 0, 1 or 2 returns offset, old position + offset or file length
\* + offset, which is the position a tell right afterwards reports.
C7_SeekReturnsPosition ==
    [][ ( /\ call'.op = "seek" /\ WellFormed(call')
          /\ streams[call'.h].open
          /\ call'.whence \in Whences
          /\ ~call'.fault
          /\ SeekTarget(streams[call'.h], Content(call'.h),
                        call'.offset, call'.whence) >= 0 )
        => ( /\ ret'.kind = "ok" /\ ret'.type = "numeral"
             /\ ret'.num = SeekTarget(streams[call'.h], Content(call'.h),
                                      call'.offset, call'.whence)
             /\ ret'.num = sq_scroll_tell(streams'[call'.h], <<>>, FALSE).num ) ]_vars

C7_Witness ==
    /\ call.op = "seek" /\ ret.kind = "ok" /\ call.whence = SEEK_END
    /\ call.offset = 0 /\ ret.num = 1 /\ streams[call.h].pos = 1

\* C8: read("\n") with data remaining returns exactly the bytes from the
\* position through the next newline (or to the end of the stream) and advances
\* the position by that many bytes.
C8_ReadLine ==
    [][ ( /\ call'.op = "read" /\ WellFormed(call') /\ call'.arg = Newline
          /\ ~call'.fault
          /\ streams[call'.h].open
          /\ Remaining(Content(call'.h), streams[call'.h].pos) # <<>> )
        => LET line == Line(Remaining(Content(call'.h), streams[call'.h].pos)) IN
           /\ ret'.kind = "ok"
           /\ ret'.text.ptr = line
           /\ ret'.text.length = Len(line)
           /\ streams'[call'.h].pos = streams[call'.h].pos + Len(line) ]_vars

\* C9: read("\n") at end of stream raises an error of the IOError kind.
C9_ReadLineAtEndRaisesIOError ==
    [][ ( /\ call'.op = "read" /\ WellFormed(call') /\ call'.arg = Newline
          /\ streams[call'.h].open
          /\ Remaining(Content(call'.h), streams[call'.h].pos) = <<>> )
        => ret'.kind = "IOError" ]_vars

\* C10: read(nil) on an open handle returns the whole remaining stream, leaves
\* the position at the end, and does not end the process.
C10_ReadAll ==
    [][ ( /\ call'.op = "read" /\ WellFormed(call') /\ call'.arg = SQ_NI
          /\ streams[call'.h].open /\ ~streams[call'.h].err )
        => ( /\ alive'
             /\ ret'.kind = "ok"
             /\ ret'.text.ptr = Remaining(Content(call'.h), streams[call'.h].pos)
             /\ streams'[call'.h].pos
                  = Max(streams[call'.h].pos, Len(Content(call'.h))) ) ]_vars

\* C11: read(N) with a numeral N < 0 raises the error "can only read
\* nonnegative amounts" (not an IOError) before any stdio call: the stream
\* with its position, the file system and the handle are as before the call.
C11_NegativeReadRaisesFirst ==
    [][ ( /\ call'.op = "read" /\ WellFormed(call')
          /\ call'.arg.genus = "numeral" /\ call'.arg.n < 0 )
        => ( /\ ret'.kind = "Error"
             /\ ret'.str = "can only read nonnegative amounts"
             /\ ~ret'.stale
             /\ alive'
             /\ streams' = streams
             /\ fs' = fs
             /\ scrolls' = scrolls ) ]_vars

C11_Witness ==
    /\ call.op = "read" /\ call.arg.genus = "numeral" /\ call.arg.n = -1
    /\ ret.kind = "Error"
    /\ streams[call.h].open /\ streams[call.h].pos = 0
    /\ Len(Content(call.h)) = 1

\* C12: read(arg) with an argument that is not a numeral, not a text and not
\* ni raises an error (not an IOError) whose message names the runtime type
\* of arg, and makes no stdio call: stream position and file content are as
\* before the call.
C12_OtherKindRaisesTypeError ==
    [][ ( /\ call'.op = "read" /\ WellFormed(call')
          /\ call'.arg.genus \notin {"numeral", "text"}
          /\ call'.arg # SQ_NI )
        => ( /\ ret'.kind = "Error"
             /\ ret'.str = "invalid read arugment kind '"
                             \o sq_value_typename(call'.arg) \o "'"
             /\ ~ret'.stale
             /\ alive'
             /\ streams' = streams
             /\ fs' = fs ) ]_vars

C12_Witness ==
    /\ call.op = "read" /\ call.arg.genus = "boolean"
    /\ ret.kind = "Error" /\ ret.str = "invalid read arugment kind 'veracity'"
    /\ streams[call.h].open /\ streams[call.h].pos = 0
    /\ Len(Content(call.h)) = 1

\* C13: a call of write, read, seek or close with a number of positional
\* arguments other than 2, 2, 3, 1 or with a keyword argument raises an error
\* the script can catch: the process goes on, and the handle, the stream and
\* the file are as before the call.
C13_ArityMismatchRecoverable ==
    [][ ( /\ call'.op \in {"write", "read", "seek", "close"}
          /\ ~WellFormed(call') )
        => ( /\ alive'
             /\ ret'.kind = "Error"
             /\ ~ret'.stale
             /\ streams' = streams
             /\ fs' = fs
             /\ scrolls' = scrolls ) ]_vars

\* C14: sq_scroll_get_attr returns a journey for each of the names write,
\* read, seek and close, and undefined for every name other than path, mode
\* and those four.
C14_GetAttrMethods ==
    call.op = "get_attr" =>
      /\ call.attr \in {"write", "read", "seek", "close"} => ret.type = "journey"
      /\ call.attr \notin {"path", "mode", "write", "read", "seek", "close"}
           => ret.type = "undefined"

\* C15: every handle has journeys of its own: the write, read and seek
\* attributes of a handle are the journeys created when that handle was
\* opened, and opening another handle leaves them as they were.
C15_JourneysPerHandle ==
    [][ /\ ( /\ call'.op = "get_attr"
             /\ call'.attr \in {"write", "read", "seek"} )
           => (ret'.type = "journey" /\ ret'.num = call'.h)
        /\ (call'.op = "open" /\ ret'.kind = "ok")
           => \A g \in Handles \ {call'.h} :
                scrolls[g].status = "live" =>
                  \A m \in {"write", "read", "seek"} :
                    sq_scroll_get_attr(scrolls'[g], journeys', m)
                      = sq_scroll_get_attr(scrolls[g], journeys, m) ]_vars

\* C16 as stated: the attributes path and mode of an open handle are texts
\* equal to the path and mode given to open, each in a buffer of its own.
C16_PathAttribute ==
    (call.op = "get_attr" /\ call.attr \in {"path", "mode"})
    => ( /\ ret.type = "text"
         /\ ret.str = IF call.attr = "path" THEN scrolls[call.h].filename
                      ELSE scrolls[call.h].mode
         /\ ret.buf = "fresh" )

\* C16, amended: the handle stores the filename and mode given to open and
\* keeps them while it lives; its attributes filename and mode are texts
\* equal to them, each in a newly allocated buffer that is not the handle's
\* own, and getting them leaves the handle as it was.
C16_FilenameAttribute ==
    [][ /\ (call'.op = "open" /\ ret'.kind = "ok")
           => ( /\ scrolls'[call'.h].filename = call'.attr
                /\ scrolls'[call'.h].mode = call'.mode )
        /\ \A h \in Handles :
             (scrolls[h].status = "live" /\ scrolls'[h].status = "live")
             => ( /\ scrolls'[h].filename = scrolls[h].filename
                  /\ scrolls'[h].mode = scrolls[h].mode )
        /\ (call'.op = "get_attr" /\ call'.attr \in {"filename", "mode"})
           => ( /\ ret'.type = "text"
                /\ ret'.str = IF call'.attr = "filename"
                              THEN scrolls[call'.h].filename
                              ELSE scrolls[call'.h].mode
                /\ ret'.buf = "fresh"
                /\ scrolls' = scrolls ) ]_vars

C16_Witness ==
    /\ call.op = "get_attr" /\ call.attr = "filename" /\ call.h = 1
    /\ ret.type = "text" /\ ret.str = "t.txt" /\ ret.buf = "fresh"
    /\ scrolls[1].filename = "t.txt" /\ scrolls[1].mode = "w+"
    /\ scrolls[2].status = "live" /\ scrolls[2].mode = "r"

\* C17: write(text) on an open handle returns only after a whole transfer:
\* either the OS writes all text.length bytes at the position and write
\* returns ni, or the OS writes fewer bytes and write raises an IOError.
C17_WriteAllOrRaise ==
    [][ ( /\ call'.op = "write" /\ WellFormed(call')
          /\ streams[call'.h].open )
        => LET st == streams[call'.h]
               text == call'.text
               moved == streams'[call'.h].pos - st.pos
           IN /\ ret'.kind \in {"ok", "IOError"}
              /\ ret'.kind = "ok" <=> moved = text.length
              /\ ret'.kind = "ok" =>
                   ( /\ ret'.type = "ni"
                     /\ fs'[st.path].data = PutAt(Content(call'.h), st.pos, text.ptr) )
              /\ (call'.fault \/ (st.mode = "r" /\ text.length > 0))
                   => ret'.kind = "IOError" ]_vars

C17_Witness ==
    /\ call.op = "write" /\ call.fault /\ call.text.length = 1
    /\ ret.kind = "IOError"
    /\ streams[call.h].open /\ streams[call.h].mode = "w+"
    /\ streams[call.h].pos = 0 /\ streams[call.h].err

\* C18: read(N) raises an IOError only when the OS reports a read error
\* during that call: a read(N) on an open handle whose own OS reads succeed
\* returns the bytes it read, whatever failed on the handle before.
C18_ReadRaisesOnlyOnOwnError ==
    [][ ( /\ call'.op = "read" /\ WellFormed(call')
          /\ call'.arg.genus = "numeral" /\ call'.arg.n >= 0
          /\ streams[call'.h].open
          /\ ~call'.fault )
        => ( /\ ret'.kind = "ok"
             /\ ret'.text.ptr
                  = SubSeq(Remaining(Content(call'.h), streams[call'.h].pos), 1,
                           Min(call'.arg.n,
                               Len(Remaining(Content(call'.h),
                                             streams[call'.h].pos)))) ) ]_vars

\* ------------------------------------------- the loop of sq_scroll_read
\* sq_scroll_read(scroll, length) entered with a stream that has avail bytes
\* left: position = 0, the while condition is about to be evaluated.
LoopInit ==
    /\ fs = [p \in Paths |-> NoFile]
    /\ scrolls = [h \in Handles |-> NoScroll]
    /\ streams = [h \in Handles |-> NoStream]
    /\ journeys = NoJourneys
    /\ call = Call("none", 0, Good(0))
    /\ ret = Ret("none", "none", NoText, 0, "", FALSE)
    /\ alive = TRUE
    /\ rtrip = NoTrip
    /\ loop \in { [NoLoop EXCEPT !.pc = "test", !.length = n, !.avail = a] :
                    n \in Sizes, a \in Sizes }

\* while ((nread = fread(&text->ptr[position], 1, length - position, file)))
\*     position += nread;
\* request is what this fread asks for, k what the OS transfers, taken the
\* bytes the OS has transferred since the loop began.
LoopFread ==
    /\ loop.pc = "test"
    /\ \E fault \in BOOLEAN :
         LET request == Minus(loop.length, loop.position) IN
         \E k \in OSReads(request, loop.avail, fault) :
           LET s == loop_step(loop.position, k) IN
           /\ Near(s.position) /\ Near(Minus(loop.avail, k))
           /\ loop' = [loop EXCEPT !.pc = IF s.exit THEN "done" ELSE "test",
                                   !.request = request,
                                   !.k = k,
                                   !.nread = s.nread,
                                   !.position = s.position,
                                   !.taken = Plus(loop.taken, k),
                                   !.avail = Minus(loop.avail, k),
                                   !.err = loop.err \/ (fault /\ request # Zero)]
    /\ UNCHANGED <<fs, scrolls, streams, journeys, call, ret, alive, rtrip>>

\* After the loop: sq_throw_io when ferror, else the terminator is stored at
\* text->ptr[position] and the text is returned.
LoopReturn ==
    /\ loop.pc = "done"
    /\ loop' = [loop EXCEPT !.pc = IF loop.err THEN "raised" ELSE "returned"]
    /\ UNCHANGED <<fs, scrolls, streams, journeys, call, ret, alive, rtrip>>

LoopNext == LoopFread \/ LoopReturn

LoopSpec == LoopInit /\ [][LoopNext]_vars

\* C19: in the loop of read(N) every iteration asks the OS for N minus the
\* bytes accumulated so far, the bytes accumulated never exceed N (so the
\* terminator goes to an index <= N), and the loop is left exactly when an OS
\* read transfers zero bytes, as the one issued once N bytes are accumulated
\* does.
C19_AccumulationLoop ==
    [][ loop.pc = "test"
        => ( /\ loop'.request = Minus(loop.length, loop.taken)
             /\ LessEq(loop'.taken, loop.length)
             /\ LessEq(loop'.position, loop.length)
             /\ loop'.pc = "done" <=> loop'.k = Zero ) ]_vars

====
